---------------------------- MODULE Spec2Model ----------------------------
(***************************************************************************)
(* 15-hole triangular peg solitaire (src/src/main.ts).                     *)
(*                                                                         *)
(* A Position's `bits` is a JavaScript 32-bit integer.  It is modelled by  *)
(* the set of the indices of its 1-bits (a subset of 0..31), so that &, |  *)
(* and ^ are intersection, union and symmetric difference and 1 << n is    *)
(* the singleton {n mod 32} (JavaScript masks a shift count to 5 bits).    *)
(* The recursion of addMoves is modelled by an explicit call stack, one    *)
(* frame per active call, one step per call, return or loop iteration.     *)
(***************************************************************************)
EXTENDS Integers, Sequences, FiniteSets, TLC

\* ------------------------------------------------------------------ bounds
\* fullBoardWithVacancyAt is tried with every hole index 0..14 and with the
\* MaxOutOfRange indices below 0 and the MaxOutOfRange indices above 14.
MaxOutOfRange == 1
\* makeBoard is run for every number of rows 2..MaxRows in place of N.
MaxRows == 8
\* solve is also tried on every Position of the board with at most
\* MaxGivenPegs pegs (besides the positions fullBoardWithVacancyAt builds).
MaxGivenPegs == 4

\* ------------------------------------------------------- 32-bit integers
\* 1 << n
Shl1(n) == {n % 32}

\* a & b, a | b, a ^ b
BitAnd(a, b) == a \cap b
BitOr(a, b) == a \cup b
BitXor(a, b) == (a \ b) \cup (b \ a)

\* 0x7fff
x7fff == 0..14

\* ----------------------------------------------------------------- board
N == 5

RECURSIVE buildRow(_, _, _, _)
buildRow(row, col, index, thisRow) ==
  IF col <= row
    THEN buildRow(row, col + 1, index + 1,
                  Append(thisRow, [row |-> row, col |-> col, index |-> index]))
    ELSE [thisRow |-> thisRow, index |-> index]

RECURSIVE buildGrid(_, _, _, _)
buildGrid(n, row, index, rows) ==
  IF row < n
    THEN LET r == buildRow(row, 0, index, <<>>)
         IN  buildGrid(n, row + 1, r.index, Append(rows, r.thisRow))
    ELSE rows

\* makeBoard(): grid[row][col] of the source is grid[row + 1][col + 1] here.
makeBoard == [grid |-> buildGrid(N, 0, 0, <<>>)]

board == makeBoard

\* The value of an out-of-range array read.
undefined == [row |-> -1, col |-> -1, index |-> -1]

\* grid[row][col], undefined when the read falls outside the arrays.
gridAt(row, col) ==
  IF row + 1 \in DOMAIN board.grid /\ col + 1 \in DOMAIN board.grid[row + 1]
    THEN board.grid[row + 1][col + 1]
    ELSE undefined

Holes ==
  UNION {{board.grid[r][c] : c \in DOMAIN board.grid[r]} : r \in DOMAIN board.grid}

\* -------------------------------------------------------------- position
\* hasPeg: bits & (1 << index), used as a truth value (non-zero is true).
hasPeg(position, hole) == BitAnd(position, Shl1(hole.index)) # {}

isEmpty(position, hole) == ~hasPeg(position, hole)

fullBoardWithVacancyAt_or(index) == BitOr(Shl1(index), x7fff)

\* (1 << index) ^ 0x7fff
fullBoardWithVacancyAt(index) == BitXor(Shl1(index), x7fff)

\* ----------------------------------------------------------------- moves
directions_rightFirst(hole) ==
  LET row == hole.row
      col == hole.col
      d(dr, dc) == <<[rowDelta |-> dr, colDelta |-> dc]>>
  IN  (IF col + 2 <= row THEN d(0, 1) ELSE <<>>)
   \o (IF col > 1 THEN d(0, -1) ELSE <<>>)
   \o (IF row > 1 /\ col < row - 2 THEN d(-1, 0) ELSE <<>>)
   \o (IF row > 1 /\ col > 1 THEN d(-1, -1) ELSE <<>>)
   \o (IF row < N - 2 THEN d(1, 0) \o d(1, 1) ELSE <<>>)

directions_leftLoose(hole) ==
  LET row == hole.row
      col == hole.col
      d(dr, dc) == <<[rowDelta |-> dr, colDelta |-> dc]>>
  IN  (IF col > 0 THEN d(0, -1) ELSE <<>>)
   \o (IF col + 2 <= row THEN d(0, 1) ELSE <<>>)
   \o (IF row > 1 /\ col < row - 2 THEN d(-1, 0) ELSE <<>>)
   \o (IF row > 1 /\ col > 1 THEN d(-1, -1) ELSE <<>>)
   \o (IF row < N - 2 THEN d(1, 0) \o d(1, 1) ELSE <<>>)

directions_down3(hole) ==
  LET row == hole.row
      col == hole.col
      d(dr, dc) == <<[rowDelta |-> dr, colDelta |-> dc]>>
  IN  (IF col > 1 THEN d(0, -1) ELSE <<>>)
   \o (IF col + 2 <= row THEN d(0, 1) ELSE <<>>)
   \o (IF row > 1 /\ col < row - 2 THEN d(-1, 0) ELSE <<>>)
   \o (IF row > 1 /\ col > 1 THEN d(-1, -1) ELSE <<>>)
   \o (IF row < N - 3 THEN d(1, 0) \o d(1, 1) ELSE <<>>)

\* directions(hole): the {rowDelta, colDelta} values in the order yielded.
directions(hole) ==
  LET row == hole.row
      col == hole.col
      d(dr, dc) == <<[rowDelta |-> dr, colDelta |-> dc]>>
  IN  (IF col > 1 THEN d(0, -1) ELSE <<>>)
   \o (IF col + 2 <= row THEN d(0, 1) ELSE <<>>)
   \o (IF row > 1 /\ col < row - 2 THEN d(-1, 0) ELSE <<>>)
   \o (IF row > 1 /\ col > 1 THEN d(-1, -1) ELSE <<>>)
   \o (IF row < N - 2 THEN d(1, 0) \o d(1, 1) ELSE <<>>)

\* neighbor: grid[row + rowDelta][col + colDelta]
neighbor(hole, dir) == gridAt(hole.row + dir.rowDelta, hole.col + dir.colDelta)

mask_noMiddle(start, middle, destination) ==
  BitOr(Shl1(start.index), Shl1(destination.index))

\* (1 << start.index) | (1 << middle.index) | (1 << destination.index)
mask(start, middle, destination) ==
  BitOr(BitOr(Shl1(start.index), Shl1(middle.index)), Shl1(destination.index))

\* The Move object yielded; its apply closure is kept as the mask it captured.
Move(start, middle, destination) ==
  [start |-> start, middle |-> middle, destination |-> destination,
   mask |-> mask(start, middle, destination)]

apply_or(move, position) == BitOr(position, move.mask)

\* move.apply(position): bits ^ mask
apply(move, position) == BitXor(position, move.mask)

\* The two outer loops, for (const row of grid) for (const start of row):
\* the holes in the order they are visited.
RECURSIVE concatRows(_, _)
concatRows(rows, r) ==
  IF r > Len(rows) THEN <<>> ELSE rows[r] \o concatRows(rows, r + 1)

startOrder == concatRows(board.grid, 1)

\* The inner loop for one start hole: for each direction yielded, the holes
\* the body reads as middle and destination (undefined when a read falls
\* outside the grid; destination is read from middle, so it is only read
\* when middle is a hole).
jumpsFrom(start) ==
  LET dirs == directions(start)
  IN  [d \in 1..Len(dirs) |->
         LET middle == neighbor(start, dirs[d])
         IN  [start |-> start,
              middle |-> middle,
              destination |-> IF middle = undefined THEN undefined
                              ELSE neighbor(middle, dirs[d])]]

\* All iterations of the innermost loop, in order, for a full board.
RECURSIVE concatJumps(_)
concatJumps(h) ==
  IF h > Len(startOrder) THEN <<>>
  ELSE jumpsFrom(startOrder[h]) \o concatJumps(h + 1)

jumps == concatJumps(1)

iteration_noDestinationTest(position, j) ==
  IF ~hasPeg(position, j.start) THEN "skip"
  ELSE IF j.middle = undefined THEN "throw"
  ELSE IF isEmpty(position, j.middle) THEN "skip"
  ELSE IF j.destination = undefined THEN "throw"
  ELSE "yield"

\* What one iteration of the innermost loop does in `position`: it is not
\* run ("skip": no peg on start), falls through a continue ("skip"), yields
\* a move ("yield"), or reads a field of undefined, which is a TypeError
\* that ends the generator ("throw").
iteration(position, j) ==
  IF ~hasPeg(position, j.start) THEN "skip"
  ELSE IF j.middle = undefined THEN "throw"
  ELSE IF isEmpty(position, j.middle) THEN "skip"
  ELSE IF j.destination = undefined THEN "throw"
  ELSE IF hasPeg(position, j.destination) THEN "skip"
  ELSE "yield"

\* possibleMoves(position, board): the moves yielded, in order, and whether
\* the generator then ends with a TypeError instead of finishing.
possibleMoves(position) ==
  LET throwing == {k \in DOMAIN jumps : iteration(position, jumps[k]) = "throw"}
      run == IF throwing = {} THEN jumps
             ELSE SubSeq(jumps, 1, (CHOOSE k \in throwing : \A l \in throwing : k <= l) - 1)
      yielding == SelectSeq(run, LAMBDA j : iteration(position, j) = "yield")
  IN  [moves |-> [k \in DOMAIN yielding |->
                    Move(yielding[k].start, yielding[k].middle, yielding[k].destination)],
       throws |-> throwing # {}]

\* ------------------------------------------- moves, the closure variant
\* The second source file yields, instead of row and column offsets, closures
\* that map a hole to a neighbor.  A closure is named by what it reads.

\* directions(hole) of the closure variant: the closures in the order yielded.
directions2(hole) ==
  LET row == hole.row
      col == hole.col
  IN  (IF col > 1 THEN <<"grid[row][col - 1]">> ELSE <<>>)
   \o (IF col + 2 <= row THEN <<"grid[row][col + 1]">> ELSE <<>>)
   \o (IF row > 1 /\ col < row - 2 THEN <<"grid[row - 1][col]">> ELSE <<>>)
   \o (IF row > 1 /\ col > 1 THEN <<"grid[row - 1][col - 1]">> ELSE <<>>)
   \o (IF row < N - 2 THEN <<"grid[row + 1][col]", "grid[row + 1][col + 1]">>
       ELSE <<>>)

\* direction(hole): the closure applied to a hole.
direction2(closure, hole) ==
  CASE closure = "grid[row][col - 1]" -> gridAt(hole.row, hole.col - 1)
    [] closure = "grid[row][col + 1]" -> gridAt(hole.row, hole.col + 1)
    [] closure = "grid[row - 1][col]" -> gridAt(hole.row - 1, hole.col)
    [] closure = "grid[row - 1][col - 1]" -> gridAt(hole.row - 1, hole.col - 1)
    [] closure = "grid[row + 1][col]" -> gridAt(hole.row + 1, hole.col)
    [] closure = "grid[row + 1][col + 1]" -> gridAt(hole.row + 1, hole.col + 1)

\* The inner loop of the closure variant for one start hole.
jumpsFrom2(start) ==
  LET dirs == directions2(start)
  IN  [d \in 1..Len(dirs) |->
         LET middle == direction2(dirs[d], start)
         IN  [start |-> start,
              middle |-> middle,
              destination |-> IF middle = undefined THEN undefined
                              ELSE direction2(dirs[d], middle)]]

RECURSIVE concatJumps2(_)
concatJumps2(h) ==
  IF h > Len(startOrder) THEN <<>>
  ELSE jumpsFrom2(startOrder[h]) \o concatJumps2(h + 1)

jumps2 == concatJumps2(1)

\* possibleMoves(position, board) of the closure variant; its loop body is
\* the one of the offset variant.
possibleMoves2(position) ==
  LET throwing == {k \in DOMAIN jumps2 : iteration(position, jumps2[k]) = "throw"}
      run == IF throwing = {} THEN jumps2
             ELSE SubSeq(jumps2, 1, (CHOOSE k \in throwing : \A l \in throwing : k <= l) - 1)
      yielding == SelectSeq(run, LAMBDA j : iteration(position, j) = "yield")
  IN  [moves |-> [k \in DOMAIN yielding |->
                    Move(yielding[k].start, yielding[k].middle, yielding[k].destination)],
       throws |-> throwing # {}]

\* ---------------------------------------------------------------- values
\* A value of type Move[] | null.
null == [isNull |-> TRUE, moves |-> <<>>]
Array(moves) == [isNull |-> FALSE, moves |-> moves]

\* The truth value of `tail` in `if (tail)`: null is false, every array
\* (the empty one included) is true.
Truthy(v) == ~v.isNull

solveDepth_short == 13 - 1

\* The depth solve starts addMoves with.
solveDepth == 13

\* ----------------------------------------------------------------- state
VARIABLES
  pc,        \* "start", "ready", "call", "return", "done", "threw";
             \* "enumerate", "applied", "reapplied" in MovesSpec
  args,      \* <<index>> after fullBoardWithVacancyAt(index), else <<>>
  position,  \* the Position (its bits) handed to solve / possibleMoves
  stack,     \* active addMoves calls: [depth, position, gen], innermost last
  tail,      \* the value the last finished addMoves call returned
  result,    \* what solve returned
  error,     \* "none", or the exception that ended the run
  move,      \* MovesSpec: <<m>>, the move picked from possibleMoves(position)
  applied,   \* MovesSpec: the Position m.apply produced
  build      \* BoardSpec: the locals of a makeBoard call and its place `at`

vars == <<pc, args, position, stack, tail, result, error, move, applied, build>>

\* The Positions of the board: bits 0..14 only.
Positions == SUBSET x7fff

IndexInputs == (0 - MaxOutOfRange)..(14 + MaxOutOfRange)

GivenPositions == {p \in Positions : Cardinality(p) <= MaxGivenPegs}

\* makeBoard is not running.
NoBuild == [at |-> "idle", n |-> N, row |-> 0, col |-> 0, index |-> 0,
            thisRow |-> <<>>, grid |-> <<>>]

Top == stack[Len(stack)]
Pop == SubSeq(stack, 1, Len(stack) - 1)

Init ==
  /\ pc = "start"
  /\ args = <<>>
  /\ position = {}
  /\ stack = <<>>
  /\ tail = null
  /\ result = null
  /\ error = "none"
  /\ move = <<>>
  /\ applied = {}
  /\ build = NoBuild

\* const position = fullBoardWithVacancyAt(index)
Construct ==
  /\ pc = "start"
  /\ \E index \in IndexInputs :
       /\ args' = <<index>>
       /\ position' = fullBoardWithVacancyAt(index)
  /\ pc' = "ready"
  /\ UNCHANGED <<stack, tail, result, error, move, applied, build>>

\* A caller hands solve a Position of its own.
Given ==
  /\ pc = "start"
  /\ \E p \in GivenPositions : position' = p
  /\ pc' = "ready"
  /\ UNCHANGED <<args, stack, tail, result, error, move, applied, build>>

Frame_reversed(depth, p) ==
  [depth |-> depth,
   position |-> p,
   gen |-> IF depth = 0 THEN [moves |-> <<>>, throws |-> FALSE]
           ELSE LET g == possibleMoves(p)
                IN  [moves |-> [k \in DOMAIN g.moves |-> g.moves[Len(g.moves) + 1 - k]],
                     throws |-> g.throws]]

\* A new addMoves(depth, position) call.  `gen` is the generator of its
\* for loop: the moves it has still to yield, and whether it then throws.
\* The generator is created after the depth test, so a call of depth 0
\* never creates one.
Frame(depth, p) ==
  [depth |-> depth,
   position |-> p,
   gen |-> IF depth = 0 THEN [moves |-> <<>>, throws |-> FALSE] ELSE possibleMoves(p)]

\* solve(position, board) calls addMoves(13, position).
solve ==
  /\ pc = "ready"
  /\ stack' = <<Frame(solveDepth, position)>>
  /\ pc' = "call"
  /\ UNCHANGED <<args, position, tail, result, error, move, applied, build>>

\* if (depth === 0) return [];
addMovesBase ==
  /\ pc = "call"
  /\ Top.depth = 0
  /\ tail' = Array(<<>>)
  /\ stack' = Pop
  /\ pc' = "return"
  /\ UNCHANGED <<args, position, result, error, move, applied, build>>

addMovesRecurse_inPlace ==
  /\ pc = "call"
  /\ Top.depth # 0
  /\ Top.gen.moves # <<>>
  /\ LET child == apply(Head(Top.gen.moves), Top.position)
     IN  stack' = Append([stack EXCEPT ![Len(stack)].position = child],
                         Frame(Top.depth - 1, child))
  /\ UNCHANGED <<pc, args, position, tail, result, error, move, applied, build>>

\* The loop takes the generator's next move (it stays first in gen.moves
\* while the call it starts is active) and calls
\* addMoves(depth - 1, move.apply(position)).
addMovesRecurse ==
  /\ pc = "call"
  /\ Top.depth # 0
  /\ Top.gen.moves # <<>>
  /\ stack' = Append(stack, Frame(Top.depth - 1, apply(Head(Top.gen.moves), Top.position)))
  /\ UNCHANGED <<pc, args, position, tail, result, error, move, applied, build>>

\* The generator has no further move: the loop ends and addMoves returns
\* null, or the generator's TypeError leaves solve.
addMovesExhausted ==
  /\ pc = "call"
  /\ Top.depth # 0
  /\ Top.gen.moves = <<>>
  /\ IF Top.gen.throws
       THEN /\ error' = "TypeError"
            /\ pc' = "threw"
            /\ stack' = <<>>
            /\ tail' = tail
       ELSE /\ tail' = null
            /\ stack' = Pop
            /\ pc' = "return"
            /\ error' = error
  /\ UNCHANGED <<args, position, result, move, applied, build>>

\* if (tail) return [move, ...tail];
addMovesPrepend ==
  /\ pc = "return"
  /\ stack # <<>>
  /\ Truthy(tail)
  /\ tail' = Array(<<Head(Top.gen.moves)>> \o tail.moves)
  /\ stack' = Pop
  /\ UNCHANGED <<pc, args, position, result, error, move, applied, build>>

addMovesContinue_noBacktrack ==
  /\ pc = "return"
  /\ stack # <<>>
  /\ ~Truthy(tail)
  /\ stack' = Pop
  /\ UNCHANGED <<pc, args, position, tail, result, error, move, applied, build>>

addMovesContinue_sameMove ==
  /\ pc = "return"
  /\ stack # <<>>
  /\ ~Truthy(tail)
  /\ pc' = "call"
  /\ UNCHANGED <<args, position, stack, tail, result, error, move, applied, build>>

\* tail is null: the loop goes on with the generator's next move.
addMovesContinue ==
  /\ pc = "return"
  /\ stack # <<>>
  /\ ~Truthy(tail)
  /\ stack' = [stack EXCEPT ![Len(stack)].gen.moves = Tail(@)]
  /\ pc' = "call"
  /\ UNCHANGED <<args, position, tail, result, error, move, applied, build>>

\* return addMoves(13, position)!;  (the ! is erased at run time)
solveReturn ==
  /\ pc = "return"
  /\ stack = <<>>
  /\ result' = tail
  /\ pc' = "done"
  /\ UNCHANGED <<args, position, stack, tail, error, move, applied, build>>

Next ==
  \/ Construct
  \/ Given
  \/ solve
  \/ addMovesBase
  \/ addMovesRecurse
  \/ addMovesExhausted
  \/ addMovesPrepend
  \/ addMovesContinue
  \/ solveReturn

Spec == Init /\ [][Next]_vars

\* ------------------------------------------------------------- MovesSpec
\* possibleMoves and Move.apply on every Position of the board.
MovesInit ==
  /\ pc = "enumerate"
  /\ args = <<>>
  /\ position \in Positions
  /\ stack = <<>>
  /\ tail = null
  /\ result = null
  /\ error = "none"
  /\ move = <<>>
  /\ applied = {}
  /\ build = NoBuild

\* for (const move of possibleMoves(position, board)) ... move.apply(position)
applyMove ==
  /\ pc = "enumerate"
  /\ LET gen == possibleMoves(position)
     IN  \E i \in 1..Len(gen.moves) :
           /\ move' = <<gen.moves[i]>>
           /\ applied' = apply(gen.moves[i], position)
  /\ pc' = "applied"
  /\ UNCHANGED <<args, position, stack, tail, result, error, build>>

\* The same move applied to the Position it produced.
applyAgain ==
  /\ pc = "applied"
  /\ applied' = apply(move[1], applied)
  /\ pc' = "reapplied"
  /\ UNCHANGED <<args, position, stack, tail, result, error, move, build>>

MovesNext == applyMove \/ applyAgain

MovesSpec == MovesInit /\ [][MovesNext]_vars

\* ------------------------------------------------------------- BoardSpec
\* makeBoard step by step, with the number of rows N as its input.
BoardInit ==
  /\ pc = "start"
  /\ args = <<>>
  /\ position = {}
  /\ stack = <<>>
  /\ tail = null
  /\ result = null
  /\ error = "none"
  /\ move = <<>>
  /\ applied = {}
  /\ \E n \in 2..MaxRows :
       build = [at |-> "outer", n |-> n, row |-> 0, col |-> 0, index |-> 0,
                thisRow |-> <<>>, grid |-> <<>>]

\* for (let row = 0; row < N; ...) { const thisRow = []; for (let col = 0; ...
forRow ==
  /\ build.at = "outer"
  /\ build.row < build.n
  /\ build' = [build EXCEPT !.thisRow = <<>>, !.col = 0, !.at = "inner"]
  /\ UNCHANGED <<pc, args, position, stack, tail, result, error, move, applied>>

pushHole_noIncrement ==
  /\ build.at = "inner"
  /\ build.col <= build.row
  /\ build' = [build EXCEPT
                 !.thisRow = Append(@, [row |-> build.row, col |-> build.col,
                                        index |-> build.index]),
                 !.col = @ + 1]
  /\ UNCHANGED <<pc, args, position, stack, tail, result, error, move, applied>>

\* col <= row: thisRow.push({row, col, index}); index++; col++
pushHole ==
  /\ build.at = "inner"
  /\ build.col <= build.row
  /\ build' = [build EXCEPT
                 !.thisRow = Append(@, [row |-> build.row, col |-> build.col,
                                        index |-> build.index]),
                 !.index = @ + 1,
                 !.col = @ + 1]
  /\ UNCHANGED <<pc, args, position, stack, tail, result, error, move, applied>>

\* The inner loop is over: grid.push(thisRow); row++
pushRow ==
  /\ build.at = "inner"
  /\ build.col > build.row
  /\ build' = [build EXCEPT !.grid = Append(@, build.thisRow), !.row = @ + 1,
                            !.at = "outer"]
  /\ UNCHANGED <<pc, args, position, stack, tail, result, error, move, applied>>

\* The outer loop is over: return { grid }
returnBoard ==
  /\ build.at = "outer"
  /\ build.row >= build.n
  /\ build' = [build EXCEPT !.at = "returned"]
  /\ UNCHANGED <<pc, args, position, stack, tail, result, error, move, applied>>

BoardNext == forRow \/ pushHole \/ pushRow \/ returnBoard

BoardSpec == BoardInit /\ [][BoardNext]_vars

\* --------------------------------------------------------------- helpers
\* Number of occupied holes of the board.
pegCount(p) == Cardinality({h \in Holes : hasPeg(p, h)})

\* The Position after the first k moves of `moves` have been applied to p.
RECURSIVE applyMoves(_, _, _)
applyMoves(p, moves, k) ==
  IF k = 0 THEN p ELSE apply(moves[k], applyMoves(p, moves, k - 1))

Range(f) == {f[x] : x \in DOMAIN f}

\* m is a move possibleMoves yields on p.
Yielded(m, p) == m \in Range(possibleMoves(p).moves)

\* The Positions one yielded move away from a Position of S.
Successors(S) ==
  UNION {{apply(m, p) : m \in Range(possibleMoves(p).moves)} : p \in S}

\* The Positions reached from S by chains of k yielded moves.
RECURSIVE ReachedAfter(_, _)
ReachedAfter(S, k) == IF k = 0 THEN S ELSE ReachedAfter(Successors(S), k - 1)

\* The six jump directions of the triangle, as (row, col) steps, in the
\* order left, right, up, up-left, down, down-right.
SixDirections == <<<<0, -1>>, <<0, 1>>, <<-1, 0>>, <<-1, -1>>, <<1, 0>>, <<1, 1>>>>

\* (r, c) is a hole of the 5-row triangle.
OnBoard(r, c) == r \in 0..4 /\ c \in 0..r

HoleAt(r, c) == CHOOSE h \in Holes : h.row = r /\ h.col = c

\* The jumps of the game that are legal in p: start, the hole one step away
\* and the hole two steps away along one direction are all on the board,
\* start and the middle hole carry a peg, the far hole is empty.
LegalJumps(p) ==
  {j \in {[start |-> s,
           middle |-> [row |-> s.row + SixDirections[d][1],
                       col |-> s.col + SixDirections[d][2]],
           destination |-> [row |-> s.row + 2 * SixDirections[d][1],
                            col |-> s.col + 2 * SixDirections[d][2]]] :
            s \in Holes, d \in DOMAIN SixDirections} :
     /\ OnBoard(j.middle.row, j.middle.col)
     /\ OnBoard(j.destination.row, j.destination.col)
     /\ hasPeg(p, j.start)
     /\ hasPeg(p, HoleAt(j.middle.row, j.middle.col))
     /\ isEmpty(p, HoleAt(j.destination.row, j.destination.col))}

\* The place of a move's direction in SixDirections (1 = left .. 6 =
\* down-right), read off its start and destination.
DirectionRank(m) ==
  CHOOSE d \in DOMAIN SixDirections :
    /\ m.destination.row = m.start.row + 2 * SixDirections[d][1]
    /\ m.destination.col = m.start.col + 2 * SixDirections[d][2]

\* m1 comes before m2: earlier row, or same row and earlier column, or same
\* start hole and earlier direction.
Before(m1, m2) ==
  \/ m1.start.row < m2.start.row
  \/ m1.start.row = m2.start.row /\ m1.start.col < m2.start.col
  \/ m1.start = m2.start /\ DirectionRank(m1) < DirectionRank(m2)

\* A measure of the work solve has left: the phase of the run and then,
\* for call level i = 1..14, twice the number of moves the loop of that
\* call has not finished with, plus 1 while the call made for the first of
\* them has not returned; a level with no active call counts more than any
\* active one.  Measures are compared from the left.
Phase ==
  CASE pc = "start" -> 4
    [] pc = "ready" -> 3
    [] pc \in {"call", "return"} /\ stack # <<>> -> 2
    [] pc = "return" /\ stack = <<>> -> 1
    [] OTHER -> 0

Level(i) ==
  IF i > Len(stack) THEN 2 * Len(jumps) + 2
  ELSE 2 * Len(stack[i].gen.moves)
       + (IF i = Len(stack) /\ pc = "return" THEN 0 ELSE 1)

SingleVacancy == args # <<>> /\ args[1] \in 0..14

Returned == pc = "done"

\* ---------------------------------------------------------------- claims
\* C1: when solve returns a solution, applying its moves in order lowers the
\* peg count by exactly 1 at every step and ends with exactly one peg.
C1_SolutionRemovesOnePegPerMove ==
  (Returned /\ Truthy(result)) =>
    /\ \A k \in 1..Len(result.moves) :
         pegCount(applyMoves(position, result.moves, k))
           = pegCount(applyMoves(position, result.moves, k - 1)) - 1
    /\ pegCount(applyMoves(position, result.moves, Len(result.moves))) = 1

C1_Witness ==
  /\ Returned
  /\ Truthy(result)
  /\ result.moves # <<>>
  /\ pegCount(position) = 14

\* C2 as stated: from the start with the vacancy at hole 12 solve returns a
\* 14-move solution and the Position after k moves has 14 - k pegs.
C2_FourteenMoves ==
  (Returned /\ args = <<12>>) =>
    /\ Truthy(result)
    /\ Len(result.moves) = 14
    /\ \A k \in 0..Len(result.moves) :
         pegCount(applyMoves(position, result.moves, k)) = 14 - k

\* C2 (amended): the board has 15 holes, and from the start with the vacancy
\* at hole 12 solve returns a 13-move solution; the Position after k of its
\* moves, k in 0..13, has 14 - k pegs.
C2_ThirteenMoves ==
  /\ Cardinality(Holes) = 15
  /\ (Returned /\ args = <<12>>) =>
       /\ Truthy(result)
       /\ Len(result.moves) = 13
       /\ \A k \in 0..13 :
            pegCount(applyMoves(position, result.moves, k)) = 14 - k

C2_Witness ==
  /\ Returned
  /\ args = <<12>>
  /\ Len(result.moves) = 13

\* C3: for every vacancy index 0..14, addMoves(13, fullBoardWithVacancyAt(v))
\* is not null: the value handed back to solve, and so solve's result, is a
\* move list that ends with a single peg.
C3_SingleVacancySolvable ==
  /\ (SingleVacancy /\ pc = "return" /\ stack = <<>>) => Truthy(tail)
  /\ (SingleVacancy /\ Returned) =>
       /\ Truthy(result)
       /\ pegCount(applyMoves(position, result.moves, Len(result.moves))) = 1

C3_Witness ==
  /\ Returned
  /\ args = <<5>>
  /\ Truthy(result)

\* C5: for v in 0..14, fullBoardWithVacancyAt(v) has hole v empty and every
\* other hole occupied, so 14 pegs, and no bit at index 15 or above.
C5_FullBoardMinusOneHole ==
  SingleVacancy =>
    /\ \A h \in Holes : isEmpty(position, h) <=> h.index = args[1]
    /\ pegCount(position) = 14
    /\ position \cap (15..31) = {}

C5_Witness ==
  /\ pc = "ready"
  /\ args = <<14>>
  /\ position = 0..13

\* C6: a vacancy index outside 0..14 is rejected with an error and no
\* Position is returned.
C6_OutOfRangeRejected ==
  (args # <<>> /\ args[1] \notin 0..14) => (error # "none" /\ pc # "ready")

\* C7: solve on a Position with exactly one peg does not crash and returns
\* the empty solution.
C7_OnePegAlreadySolved ==
  /\ pegCount(position) = 1 => error = "none"
  /\ (Returned /\ pegCount(position) = 1) => result = Array(<<>>)

\* C8: the search starts at remaining depth pegCount(p) - 1, and a returned
\* solution has pegCount(p) - 1 moves, each yielded by possibleMoves on the
\* Position the moves before it produce.
C8_DepthIsPegCountMinusOne ==
  /\ stack # <<>> => stack[1].depth = pegCount(position) - 1
  /\ (Returned /\ Truthy(result)) =>
       /\ Len(result.moves) = pegCount(position) - 1
       /\ \A k \in 1..Len(result.moves) :
            Yielded(result.moves[k], applyMoves(position, result.moves, k - 1))

C11_BoardIsTriangular ==
  build.at = "returned" =>
    LET n == build.n
        grid == build.grid
        total == (n * (n + 1)) \div 2
        holes == UNION {Range(grid[r]) : r \in DOMAIN grid}
    IN  /\ Len(grid) = n
        /\ \A r \in 0..(n - 1) :
             /\ Len(grid[r + 1]) = r + 1
             /\ \A col \in 0..r :
                  grid[r + 1][col + 1] =
                    [row |-> r, col |-> col, index |-> (r * (r + 1)) \div 2 + col]
        /\ build.index = total
        /\ Cardinality(holes) = total
        /\ {h.index : h \in holes} = 0..(total - 1)
        /\ n = 5 => /\ grid = board.grid
                    /\ total = 15
                    /\ {h.index : h \in holes} = 0..14

C11_Witness ==
  /\ build.at = "returned"
  /\ build.n = 5
  /\ Len(build.grid) = 5

\* C12: possibleMoves yields a Move for every jump that is legal in the
\* Position solve is called with.
C12_EveryLegalJumpYielded ==
  pc = "ready" =>
    \A j \in LegalJumps(position) :
      \E m \in Range(possibleMoves(position).moves) :
        /\ m.start = j.start
        /\ m.middle = HoleAt(j.middle.row, j.middle.col)
        /\ m.destination = HoleAt(j.destination.row, j.destination.col)

\* C13 (MovesSpec): for every hole and every direction directions yields
\* there, the holes one and two steps away are on the board, so no iteration
\* of possibleMoves reads grid outside it and the generator never throws;
\* and in every move yielded start, middle and destination are three
\* different holes, destination two steps from start along one of the six
\* directions and middle the hole halfway.
C13_GatesSound ==
  /\ pc = "enumerate" =>
       /\ \A h \in Holes : \A d \in Range(directions(h)) :
            /\ OnBoard(h.row + d.rowDelta, h.col + d.colDelta)
            /\ OnBoard(h.row + 2 * d.rowDelta, h.col + 2 * d.colDelta)
       /\ \A j \in Range(jumps) : j.middle \in Holes /\ j.destination \in Holes
       /\ ~possibleMoves(position).throws
  /\ pc = "applied" =>
       LET m == move[1]
       IN  /\ {m.start, m.middle, m.destination} \subseteq Holes
           /\ Cardinality({m.start.index, m.middle.index, m.destination.index}) = 3
           /\ \E d \in DOMAIN SixDirections :
                /\ m.middle.row = m.start.row + SixDirections[d][1]
                /\ m.middle.col = m.start.col + SixDirections[d][2]
                /\ m.destination.row = m.start.row + 2 * SixDirections[d][1]
                /\ m.destination.col = m.start.col + 2 * SixDirections[d][2]

C13_Witness ==
  /\ pc = "applied"
  /\ move[1].destination.row = move[1].start.row - 2
  /\ move[1].destination.col = move[1].start.col

\* C14 (MovesSpec): the moves possibleMoves yields on a Position come in
\* strictly increasing order of start row, then start column, then direction
\* in the order left, right, up, up-left, down, down-right.
C14_MovesInFixedOrder ==
  pc \in {"enumerate", "applied"} =>
    LET moves == possibleMoves(position).moves
    IN  \A i \in 1..(Len(moves) - 1) : Before(moves[i], moves[i + 1])

C14_Witness ==
  /\ pc = "applied"
  /\ LET moves == possibleMoves(position).moves
     IN  /\ Len(moves) >= 3
         /\ move[1] = moves[2]
         /\ moves[1].start = moves[2].start
         /\ moves[2].start.row < moves[3].start.row

\* C15: the solution returned is the first in enumeration order: its k-th
\* move is the earliest move of possibleMoves, on the Position its first
\* k - 1 moves produce, from which a chain of the remaining number of moves
\* exists (no earlier move there starts such a chain); and once a call has
\* returned a move list no loop takes a further candidate.
C15_FirstSolutionInOrder ==
  /\ pc = "call" => ~Truthy(tail)
  /\ (Returned /\ Truthy(result)) =>
       \A k \in 1..Len(result.moves) :
         LET p == applyMoves(position, result.moves, k - 1)
             moves == possibleMoves(p).moves
             remaining == Len(result.moves) - k
         IN  \E i \in DOMAIN moves :
               /\ moves[i] = result.moves[k]
               /\ ReachedAfter({apply(moves[i], p)}, remaining) # {}
               /\ \A j \in 1..(i - 1) :
                    ReachedAfter({apply(moves[j], p)}, remaining) = {}

\* A solution whose first move is not the first move possibleMoves yields.
C15_Witness ==
  /\ Returned
  /\ Truthy(result)
  /\ result.moves # <<>>
  /\ result.moves[1] # possibleMoves(position).moves[1]

\* C16: in a search started from fullBoardWithVacancyAt(v), v in 0..14,
\* the Position of the addMoves call the search is in (every call is the
\* innermost one when it is entered) has no bit at index 15 or above, and
\* with remaining depth d it has d + 1 pegs.
C16_VisitedPositionsOnBoard ==
  (SingleVacancy /\ stack # <<>>) =>
    /\ Top.position \cap (15..31) = {}
    /\ pegCount(Top.position) = Top.depth + 1

C16_Witness ==
  /\ SingleVacancy
  /\ Len(stack) = 14
  /\ Top.depth = 0
  /\ pegCount(Top.position) = 1

\* C17: the offset variant and the closure variant of possibleMoves yield
\* the same moves in the same order (and throw alike) on every Position of
\* the board, and every Position a search visits is one of these or gets the
\* same moves from both; solve being the same function of possibleMoves in
\* both files, the two searches make the same calls and return the same.
C17_VariantsAgree ==
  /\ pc = "start" => \A p \in Positions : possibleMoves2(p) = possibleMoves(p)
  /\ stack # <<>> =>
       \/ Top.position \in Positions
       \/ possibleMoves2(Top.position) = possibleMoves(Top.position)

C17_Witness ==
  /\ pc = "call"
  /\ Len(stack) = 7
  /\ Top.gen = possibleMoves2(Top.position)
  /\ Len(Top.gen.moves) >= 2

\* C18: solve terminates.  In every state each active addMoves call has a
\* remaining depth 1 less than its caller's, at most 14 calls (solve's and 13
\* levels below it) are active, every loop has finitely many moves left,
\* the running call and the move a returning call was made for exist (so a
\* branch of addMoves can always run), solve returns null or a list of
\* moves, and it throws for no Position of the 15 holes; and every step lowers the measure (Phase, Level(1), ..,
\* Level(14)), a tuple of bounded naturals compared from the left, so no
\* run goes on for ever.
C18_State ==
  /\ Len(stack) <= 14
  /\ \A i \in DOMAIN stack :
       /\ stack[i].depth \in 0..13
       /\ Len(stack[i].gen.moves) <= Len(jumps)
       /\ i > 1 => stack[i].depth = stack[i - 1].depth - 1
  /\ pc = "call" => stack # <<>>
  /\ (pc = "return" /\ stack # <<>>) => Top.gen.moves # <<>>
  /\ Returned => (result = null \/ Truthy(result))
  /\ position \subseteq x7fff => pc # "threw"

C18_Step ==
  \/ Phase' < Phase
  \/ /\ Phase' = Phase
     /\ \E i \in 1..14 :
          /\ Level(i)' < Level(i)
          /\ \A j \in 1..(i - 1) : Level(j)' = Level(j)

C18_Terminates == []C18_State /\ [][C18_Step]_vars

C18_Witness ==
  /\ Returned
  /\ args = <<5>>
  /\ Len(result.moves) = 13
  /\ Phase = 0

\* C19: a move makes a new Position and does not modify the one it is
\* applied to.  No step changes the Position of a call that stays active,
\* so after a failed branch the caller goes on with the Position it had;
\* the first call works on the Position solve was given; and no step after
\* construction changes that Position, so when solve returns the caller's
\* Position is the one it passed in.
C19_State ==
  /\ stack # <<>> => stack[1].position = position
  /\ (SingleVacancy /\ Returned) => position = fullBoardWithVacancyAt(args[1])

C19_Step ==
  /\ pc # "start" => position' = position
  /\ \A i \in DOMAIN stack :
       i <= Len(stack') => stack'[i].position = stack[i].position

C19_PositionsNotModified == []C19_State /\ [][C19_Step]_vars

\* The second move of a loop is about to be tried, after the branch of the
\* first one failed.
C19_Witness ==
  /\ pc = "call"
  /\ Len(stack) >= 2
  /\ Top.depth # 0
  /\ Top.gen.moves # <<>>
  /\ Len(Top.gen.moves) < Len(possibleMoves(Top.position).moves)

\* C4 (MovesSpec): for every move possibleMoves yields on a Position, start
\* and middle are occupied and destination is empty there, apply changes
\* exactly the three bits of start, middle and destination, and applying
\* the move twice gives the Position back.
C4_MoveTogglesThreeHoles ==
  (pc \in {"applied", "reapplied"}) =>
    LET m == move[1]
        three == {m.start.index, m.middle.index, m.destination.index}
    IN  /\ hasPeg(position, m.start)
        /\ hasPeg(position, m.middle)
        /\ isEmpty(position, m.destination)
        /\ Cardinality(three) = 3
        /\ pc = "applied" => BitXor(applied, position) = three
        /\ pc = "reapplied" => applied = position

C4_Witness ==
  /\ pc = "reapplied"
  /\ applied = position
  /\ pegCount(position) = 14

=============================================================================
